---- MODULE Spec2Model ----
(***************************************************************************)
(* Timestamp arithmetic of ndless (file_io/sys/time.rs): Timespec, the     *)
(* (tv_sec, tv_nsec) pair, and the Instant and SystemTime clocks built on  *)
(* it.                                                                     *)
(*                                                                         *)
(* Widths.  tv_sec is a libc::time_t, a signed two's-complement integer of *)
(* the platform's width; the model gives it TimeBits bits and draws the    *)
(* seconds from the whole range, so that every overflow of the seconds     *)
(* field happens.  Duration's whole seconds are a u64, twice as wide as    *)
(* the 32-bit time_t of the target; the model keeps the ratio.  tv_nsec    *)
(* keeps its real values: NSEC_PER_SEC is the program's 1_000_000_000 and  *)
(* the nanoseconds are drawn from values at the carry and borrow           *)
(* boundaries.  For 0 <= tv_nsec < NSEC_PER_SEC the casts between c_long,  *)
(* u32 and i32 in the arithmetic preserve the value, and the sum of two    *)
(* such values fits a u32.                                                 *)
(*                                                                         *)
(* Overflow of a plain `-` on the seconds depends on the build: with       *)
(* overflow checks (debug profile) it panics, without (release profile)    *)
(* it wraps.  overflow_checks is the build's choice, fixed at Init.        *)
(***************************************************************************)
EXTENDS Integers, FiniteSets, TLC

VARIABLES overflow_checks, cur, steps, op, self, other, dur, raw, result

vars == <<overflow_checks, cur, steps, op, self, other, dur, raw, result>>

NSEC_PER_SEC == 1000000000

TimeBits == 3

\* The longest chain of offset operations applied to one timestamp.
MaxOps == 2

\* The depth up to which the recursion of sub_timespec is followed.
MaxCalls == 3

TimeMod == 2 ^ TimeBits

TimeMax == 2 ^ (TimeBits - 1) - 1

TimeMin == -(2 ^ (TimeBits - 1))

TimeT == TimeMin .. TimeMax

U64Bits == 2 * TimeBits

U64Mod == 2 ^ U64Bits

U64Max == U64Mod - 1

CUint == 0 .. (TimeMod - 1)

\* Sub-second values at the boundaries of carry and borrow.
NanoSet == {0, 1, 500000000, 999999999}

\* Raw tv_nsec values a libc::timespec can hold, in and out of [0, 1e9).
RawNsecSet == {-1, 0, 250000, 999999999, 1000000000}

\* Raw tv_usec values a libc::timeval can hold, in and out of [0, 1e6).
RawUsecSet == {-1, 0, 250, 999999, 1000000}

\* Whole seconds of a Duration: everything that fits time_t, the first value
\* that does not, and the u64 maximum.
DurSecs == (0 .. (TimeMax + 1)) \cup {U64Max}

Timespec(sec, nsec) == [tv_sec |-> sec, tv_nsec |-> nsec]

Timespecs == {Timespec(s, n) : s \in TimeT, n \in NanoSet}

Duration(secs, nanos) == [secs |-> secs, nanos |-> nanos]

Durations == {Duration(s, n) : s \in DurSecs, n \in NanoSet}

Timevals == {[tv_sec |-> s, tv_usec |-> u] : s \in TimeT, u \in RawUsecSet}

RawTimespecs == {Timespec(s, n) : s \in TimeT, n \in RawNsecSet}

zero == Timespec(0, 0)

UNIX_EPOCH == zero

None == [tag |-> "None"]

Some(t) == [tag |-> "Some", t |-> t]

SomeDur(d) == [tag |-> "Some", d |-> d]

Ok(d) == [tag |-> "Ok", d |-> d]

Err(d) == [tag |-> "Err", d |-> d]

Panic == [tag |-> "Panic"]

InTime(x) == TimeMin <= x /\ x <= TimeMax

\* Two's-complement wrap of an exact integer into time_t.
WrapTime(x) == ((x - TimeMin) % TimeMod) + TimeMin

\* `x as u64` of a time_t: sign extension, i.e. x modulo 2^64.
as_u64(x) == IF x >= 0 THEN x ELSE x + U64Mod

\* `t as libc::c_long` of a c_uint: reinterpretation of the same bits.
as_c_long(n) == IF n > TimeMax THEN n - TimeMod ELSE n

\* u64 -> time_t, `try_into().ok()`.
try_into(secs) == IF secs <= TimeMax THEN Some(secs) ELSE None

\* checked_add with the check lost: the sum wraps.
checked_add_wrapping(a, b) == Some(WrapTime(a + b))

checked_add(a, b) == IF InTime(a + b) THEN Some(a + b) ELSE None

\* checked_sub with the check lost: the difference wraps.
checked_sub_wrapping(a, b) == Some(WrapTime(a - b))

checked_sub(a, b) == IF InTime(a - b) THEN Some(a - b) ELSE None

\* cmp with the fields of the tuple exchanged: nanoseconds compared first.
cmp_nsec_first(a, b) ==
  IF a.tv_nsec < b.tv_nsec THEN "Less"
  ELSE IF a.tv_nsec > b.tv_nsec THEN "Greater"
  ELSE IF a.tv_sec < b.tv_sec THEN "Less"
  ELSE IF a.tv_sec > b.tv_sec THEN "Greater"
  ELSE "Equal"

\* Ord for Timespec: the tuple (tv_sec, tv_nsec) compared lexicographically.
cmp(a, b) ==
  IF a.tv_sec < b.tv_sec THEN "Less"
  ELSE IF a.tv_sec > b.tv_sec THEN "Greater"
  ELSE IF a.tv_nsec < b.tv_nsec THEN "Less"
  ELSE IF a.tv_nsec > b.tv_nsec THEN "Greater"
  ELSE "Equal"

eq(a, b) == a.tv_sec = b.tv_sec /\ a.tv_nsec = b.tv_nsec

ge(a, b) == cmp(a, b) # "Less"

lt(a, b) == cmp(a, b) = "Less"

\* Duration::new(secs, nanos): carries whole seconds out of nanos.
Duration_new(secs, nanos) ==
  Duration(secs + (nanos \div NSEC_PER_SEC), nanos % NSEC_PER_SEC)

\* `a - b` on time_t: the build with overflow checks panics on overflow,
\* the build without wraps.
minus(a, b, oc) ==
  IF ~InTime(a - b) /\ oc THEN Panic ELSE [tag |-> "Val", v |-> WrapTime(a - b)]

\* The self >= other branch with the borrowed second not taken from the
\* seconds difference.
sub_forward_no_borrow(a, b, oc) ==
  IF a.tv_nsec >= b.tv_nsec
  THEN LET s == minus(a.tv_sec, b.tv_sec, oc) IN
       IF s.tag = "Panic" THEN Panic
       ELSE Ok(Duration_new(as_u64(s.v), a.tv_nsec - b.tv_nsec))
  ELSE LET s == minus(a.tv_sec, b.tv_sec, oc) IN
       IF s.tag = "Panic" THEN Panic
       ELSE Ok(Duration_new(as_u64(s.v),
                            a.tv_nsec + NSEC_PER_SEC - b.tv_nsec))

\* Timespec::sub_timespec, the branch taken when self >= other.
sub_forward(a, b, oc) ==
  IF a.tv_nsec >= b.tv_nsec
  THEN LET s == minus(a.tv_sec, b.tv_sec, oc) IN
       IF s.tag = "Panic" THEN Panic
       ELSE Ok(Duration_new(as_u64(s.v), a.tv_nsec - b.tv_nsec))
  ELSE LET s1 == minus(a.tv_sec, 1, oc) IN
       IF s1.tag = "Panic" THEN Panic
       ELSE LET s == minus(s1.v, b.tv_sec, oc) IN
            IF s.tag = "Panic" THEN Panic
            ELSE Ok(Duration_new(as_u64(s.v),
                                 a.tv_nsec + NSEC_PER_SEC - b.tv_nsec))

\* The match of the recursive call with its arms not exchanged.
swap_tag_kept(r) == r

\* Result<Duration, Duration> with Ok and Err exchanged (the match of the
\* recursive call); a panic of the call propagates.
swap_tag(r) ==
  IF r.tag = "Ok" THEN Err(r.d) ELSE IF r.tag = "Err" THEN Ok(r.d) ELSE r

RECURSIVE sub_timespec(_, _, _)

\* Timespec::sub_timespec(&self, other) -> Result<Duration, Duration>.
sub_timespec(a, b, oc) ==
  IF ge(a, b) THEN sub_forward(a, b, oc)
  ELSE swap_tag(sub_timespec(b, a, oc))

RECURSIVE sub_timespec_calls_unswapped(_, _, _)

\* The recursion of sub_timespec with the operands of the inner call not
\* exchanged: it never reaches the self >= other branch.
sub_timespec_calls_unswapped(a, b, fuel) ==
  IF ge(a, b) THEN 0
  ELSE IF fuel = 0 THEN 1
  ELSE 1 + sub_timespec_calls_unswapped(a, b, fuel - 1)

RECURSIVE sub_timespec_calls(_, _, _)

\* The recursive calls sub_timespec(a, b) makes before it returns: none in
\* the self >= other branch, else one more than other.sub_timespec(self)
\* makes; counted up to fuel + 1.
sub_timespec_calls(a, b, fuel) ==
  IF ge(a, b) THEN 0
  ELSE IF fuel = 0 THEN 1
  ELSE 1 + sub_timespec_calls(b, a, fuel - 1)

\* checked_add_duration with `>` for `>=`: a sum of exactly one second is
\* not renormalized.
checked_add_duration_gt(t, d) ==
  LET conv == try_into(d.secs) IN
  IF conv.tag = "None" THEN None
  ELSE LET secs == checked_add(t.tv_sec, conv.t) IN
       IF secs.tag = "None" THEN None
       ELSE LET nsec == d.nanos + t.tv_nsec IN
            IF nsec > NSEC_PER_SEC
            THEN LET secs1 == checked_add(secs.t, 1) IN
                 IF secs1.tag = "None" THEN None
                 ELSE Some(Timespec(secs1.t, nsec - NSEC_PER_SEC))
            ELSE Some(Timespec(secs.t, nsec))

\* checked_add_duration with the carried second dropped.
checked_add_duration_no_carry(t, d) ==
  LET conv == try_into(d.secs) IN
  IF conv.tag = "None" THEN None
  ELSE LET secs == checked_add(t.tv_sec, conv.t) IN
       IF secs.tag = "None" THEN None
       ELSE LET nsec == d.nanos + t.tv_nsec IN
            IF nsec >= NSEC_PER_SEC
            THEN Some(Timespec(secs.t, nsec - NSEC_PER_SEC))
            ELSE Some(Timespec(secs.t, nsec))

\* Timespec::checked_add_duration(&self, other) -> Option<Timespec>.
checked_add_duration(t, d) ==
  LET conv == try_into(d.secs) IN
  IF conv.tag = "None" THEN None
  ELSE LET secs == checked_add(t.tv_sec, conv.t) IN
       IF secs.tag = "None" THEN None
       ELSE LET nsec == d.nanos + t.tv_nsec IN
            IF nsec >= NSEC_PER_SEC
            THEN LET secs1 == checked_add(secs.t, 1) IN
                 IF secs1.tag = "None" THEN None
                 ELSE Some(Timespec(secs1.t, nsec - NSEC_PER_SEC))
            ELSE Some(Timespec(secs.t, nsec))

\* checked_sub_duration with the borrowed second not taken from the seconds.
checked_sub_duration_no_borrow(t, d) ==
  LET conv == try_into(d.secs) IN
  IF conv.tag = "None" THEN None
  ELSE LET secs == checked_sub(t.tv_sec, conv.t) IN
       IF secs.tag = "None" THEN None
       ELSE LET nsec == t.tv_nsec - d.nanos IN
            IF nsec < 0
            THEN Some(Timespec(secs.t, nsec + NSEC_PER_SEC))
            ELSE Some(Timespec(secs.t, nsec))

\* Timespec::checked_sub_duration(&self, other) -> Option<Timespec>.
checked_sub_duration(t, d) ==
  LET conv == try_into(d.secs) IN
  IF conv.tag = "None" THEN None
  ELSE LET secs == checked_sub(t.tv_sec, conv.t) IN
       IF secs.tag = "None" THEN None
       ELSE LET nsec == t.tv_nsec - d.nanos IN
            IF nsec < 0
            THEN LET secs1 == checked_sub(secs.t, 1) IN
                 IF secs1.tag = "None" THEN None
                 ELSE Some(Timespec(secs1.t, nsec + NSEC_PER_SEC))
            ELSE Some(Timespec(secs.t, nsec))

\* ok() replaced by a conversion that keeps the duration of either outcome.
ok_either(r) == IF r.tag \in {"Ok", "Err"} THEN SomeDur(r.d) ELSE r

\* Result::ok(): Ok(d) -> Some(d), Err(_) -> None.
ok(r) ==
  IF r.tag = "Ok" THEN SomeDur(r.d) ELSE IF r.tag = "Err" THEN None ELSE r

\* Instant::checked_sub_instant(&self, other) -> Option<Duration>.
checked_sub_instant(a, b, oc) == ok(sub_timespec(a, b, oc))

\* SystemTime::sub_time(&self, other) -> Result<Duration, Duration>.
sub_time(a, b, oc) == sub_timespec(a, b, oc)

\* From<libc::timeval> with the scaling lost: microseconds stored as they are.
From_timeval_unscaled(tv) == Timespec(tv.tv_sec, tv.tv_usec)

\* impl From<libc::timeval> for SystemTime.
From_timeval(tv) == Timespec(tv.tv_sec, tv.tv_usec * 1000)

\* impl From<libc::timespec> for SystemTime.
From_timespec(ts) == Timespec(ts.tv_sec, ts.tv_nsec)

\* impl From<libc::c_uint> for SystemTime.
From_c_uint(n) == From_timespec(Timespec(as_c_long(n), 0))

\* Result::unwrap() of cvt(..): Err panics, Ok lets the call go on with v.
unwrap(r, v) == IF r = "Err" THEN Panic ELSE Some(v)

\* Instant::now() -> Instant, with r the outcome of cvt(gettimeofday(&mut s))
\* and s the reading the raw clock source stored.
Instant_now(r, s) == unwrap(r, Timespec(s.tv_sec, s.tv_usec * 1000))

\* SystemTime::now() -> SystemTime, r and s as for Instant::now.
SystemTime_now(r, s) == unwrap(r, From_timeval(s))

NoTimespec == Timespec(0, 0)

NoDuration == Duration(0, 0)

NoRaw == [kind |-> "none"]

\* Nothing in flight: the operands and the result of the last call are gone.
Idle ==
  /\ op = "idle"
  /\ self = NoTimespec
  /\ other = NoTimespec
  /\ dur = NoDuration
  /\ raw = NoRaw
  /\ result = None

Init ==
  /\ overflow_checks \in BOOLEAN
  /\ cur \in Timespecs
  /\ steps = 0
  /\ Idle

\* The holder of cur offsets it forward by d and keeps the value returned.
CheckedAddDuration(d) ==
  /\ op = "idle"
  /\ steps < MaxOps
  /\ op' = "checked_add_duration"
  /\ self' = cur
  /\ dur' = d
  /\ result' = checked_add_duration(cur, d)
  /\ cur' = IF result'.tag = "Some" THEN result'.t ELSE cur
  /\ steps' = steps + 1
  /\ other' = NoTimespec
  /\ raw' = NoRaw
  /\ UNCHANGED overflow_checks

\* The holder of cur offsets it backward by d and keeps the value returned.
CheckedSubDuration(d) ==
  /\ op = "idle"
  /\ steps < MaxOps
  /\ op' = "checked_sub_duration"
  /\ self' = cur
  /\ dur' = d
  /\ result' = checked_sub_duration(cur, d)
  /\ cur' = IF result'.tag = "Some" THEN result'.t ELSE cur
  /\ steps' = steps + 1
  /\ other' = NoTimespec
  /\ raw' = NoRaw
  /\ UNCHANGED overflow_checks

\* A difference of cur against another timestamp o, with outcome r.
Difference(name, o, r) ==
  /\ op = "idle"
  /\ op' = name
  /\ self' = cur
  /\ other' = o
  /\ result' = r
  /\ dur' = NoDuration
  /\ raw' = NoRaw
  /\ UNCHANGED <<overflow_checks, cur, steps>>

SubTimespec(o) ==
  Difference("sub_timespec", o, sub_timespec(cur, o, overflow_checks))

SubTime(o) ==
  Difference("sub_time", o, sub_time(cur, o, overflow_checks))

CheckedSubInstant(o) ==
  Difference("checked_sub_instant", o,
             checked_sub_instant(cur, o, overflow_checks))

\* The holder of cur compares it with o: Ord::cmp and PartialEq::eq.
Compare(o) ==
  /\ op = "idle"
  /\ op' = "cmp"
  /\ self' = cur
  /\ other' = o
  /\ result' = [tag |-> "Ordering", ord |-> cmp(cur, o), eq |-> eq(cur, o)]
  /\ dur' = NoDuration
  /\ raw' = NoRaw
  /\ UNCHANGED <<overflow_checks, cur, steps>>

\* A conversion of a raw platform value x into the SystemTime t.
Conversion(name, x, t) ==
  /\ op = "idle"
  /\ op' = name
  /\ raw' = x
  /\ result' = Some(t)
  /\ self' = NoTimespec
  /\ other' = NoTimespec
  /\ dur' = NoDuration
  /\ UNCHANGED <<overflow_checks, cur, steps>>

FromTimeval(tv) ==
  Conversion("from_timeval", [kind |-> "timeval", v |-> tv], From_timeval(tv))

FromTimespec(ts) ==
  Conversion("from_timespec", [kind |-> "timespec", v |-> ts],
             From_timespec(ts))

FromCUint(n) ==
  Conversion("from_c_uint", [kind |-> "c_uint", n |-> n], From_c_uint(n))

\* A query of the raw clock source, which reports r ("Ok" or "Err") and, when
\* it succeeds, stores the reading s; t is what now() makes of it.
Now(name, r, s, t) ==
  /\ op = "idle"
  /\ op' = name
  /\ raw' = [kind |-> "gettimeofday", cvt |-> r, v |-> s]
  /\ result' = t
  /\ self' = NoTimespec
  /\ other' = NoTimespec
  /\ dur' = NoDuration
  /\ UNCHANGED <<overflow_checks, cur, steps>>

\* What gettimeofday leaves in s when it fails: the initial zeros.
ZeroTimeval == [tv_sec |-> 0, tv_usec |-> 0]

\* The readings the raw clock source can report.
Readings ==
  {<<"Ok", s>> : s \in Timevals} \cup {<<"Err", ZeroTimeval>>}

InstantNow(rd) == Now("instant_now", rd[1], rd[2], Instant_now(rd[1], rd[2]))

SystemTimeNow(rd) ==
  Now("systemtime_now", rd[1], rd[2], SystemTime_now(rd[1], rd[2]))

\* The call has returned: its operands and result go out of scope (all the
\* types are Copy values, nothing is retained), the holder goes on with cur.
Continue ==
  /\ op # "idle"
  /\ op' = "idle"
  /\ self' = NoTimespec
  /\ other' = NoTimespec
  /\ dur' = NoDuration
  /\ raw' = NoRaw
  /\ result' = None
  /\ UNCHANGED <<overflow_checks, cur, steps>>

Next ==
  \/ \E d \in Durations : CheckedAddDuration(d)
  \/ \E d \in Durations : CheckedSubDuration(d)
  \/ \E o \in Timespecs : SubTimespec(o)
  \/ \E o \in Timespecs : SubTime(o)
  \/ \E o \in Timespecs : CheckedSubInstant(o)
  \/ \E o \in Timespecs : Compare(o)
  \/ \E tv \in Timevals : FromTimeval(tv)
  \/ \E ts \in RawTimespecs : FromTimespec(ts)
  \/ \E n \in CUint : FromCUint(n)
  \/ \E rd \in Readings : InstantNow(rd)
  \/ \E rd \in Readings : SystemTimeNow(rd)
  \/ Continue

Spec == Init /\ [][Next]_vars

----------------------------------------------------------------------------
(* Exact arithmetic the results are compared with.                          *)

Normalized(t) == 0 <= t.tv_nsec /\ t.tv_nsec < NSEC_PER_SEC

\* The integer sec * NSEC_PER_SEC + ns, written as its two radix-1e9 digits:
\* two such integers are equal iff their digits are.
Canon(sec, ns) == <<sec + (ns \div NSEC_PER_SEC), ns % NSEC_PER_SEC>>

IsAdd == op = "checked_add_duration"

IsSub == op = "checked_sub_duration"

Returned == result.tag = "Some"

Carry == self.tv_nsec + dur.nanos >= NSEC_PER_SEC

Borrow == self.tv_nsec < dur.nanos

\* The seconds of the exact self + dur and self - dur.
ExactSecsSum == self.tv_sec + dur.secs + (IF Carry THEN 1 ELSE 0)

ExactSecsDiff == self.tv_sec - dur.secs - (IF Borrow THEN 1 ELSE 0)

\* C1: along any chain of add_duration / sub_duration calls that starts at a
\* normalized timestamp, the timestamp held and every timestamp returned has
\* 0 <= nanoseconds < 1_000_000_000.
C1_NormalizationPreserved ==
  /\ Normalized(cur)
  /\ (IsAdd \/ IsSub) /\ Returned => Normalized(result.t)

\* C1 witness: the second offset of a chain returned a value, after a carry.
C1_Witness ==
  /\ IsAdd /\ Returned /\ Carry
  /\ steps = 2
  /\ cur = result.t

\* C3: when add_duration(t, d) returns r, sub_duration(r, d) returns t.
C3_RoundTrip ==
  IsAdd /\ Returned => checked_sub_duration(result.t, dur) = Some(self)

\* C3 witness: an addition that carried returned, so the way back borrows.
C3_Witness ==
  /\ IsAdd /\ Returned /\ Carry
  /\ dur.secs > 0
  /\ checked_sub_duration(result.t, dur) = Some(self)

IsConversion == op \in {"from_timeval", "from_timespec", "from_c_uint"}

\* C2: each of the three raw-layout conversions yields, for every input the
\* input type can hold, a timestamp with 0 <= nanoseconds < 1_000_000_000.
C2_ConversionsNormalize ==
  IsConversion => Normalized(result.t)

\* The relation C4 states between the two orders of one difference.
SameMagnitudeOppositeTags(r, q) == r.d = q.d /\ r.tag # q.tag

BothReturn(r, q) == r.tag \in {"Ok", "Err"} /\ q.tag \in {"Ok", "Err"}

Reverse == sub_timespec(other, self, overflow_checks)

\* C4 as stated: for all a and b, difference(a, b) and difference(b, a), when
\* they return, return the same magnitude and opposite direction tags.
C4_SymmetryForAll ==
  op = "sub_timespec" /\ BothReturn(result, Reverse)
    => SameMagnitudeOppositeTags(result, Reverse)

\* C4 amended: for a # b, difference(a, b) and difference(b, a) either both
\* panic on the overflow of the seconds subtraction or both return, with the
\* same magnitude and opposite tags; for a = b both return Ok(0).
C4_SymmetryDistinct ==
  op = "sub_timespec" =>
    IF eq(self, other)
    THEN result = Ok(Duration(0, 0)) /\ Reverse = Ok(Duration(0, 0))
    ELSE \/ result.tag = "Panic" /\ Reverse.tag = "Panic"
         \/ /\ BothReturn(result, Reverse)
            /\ SameMagnitudeOppositeTags(result, Reverse)

\* C4 witness: a backward difference, with a borrow in the swapped call.
C4_Witness ==
  /\ op = "sub_timespec"
  /\ lt(self, other)
  /\ other.tv_nsec < self.tv_nsec
  /\ result.tag = "Err"
  /\ Reverse = Ok(result.d)

\* C5: duration_since(self, other) returns Ok exactly when self >= other and
\* Err exactly when self < other.
C5_DirectionalContract ==
  op = "sub_time" =>
    /\ result.tag = "Ok" <=> ge(self, other)
    /\ result.tag = "Err" <=> lt(self, other)

\* |a - b| as the two radix-1e9 digits of the exact integer.
AbsDiff(a, b) ==
  LET c == Canon(a.tv_sec - b.tv_sec, a.tv_nsec - b.tv_nsec) IN
  IF c[1] >= 0 THEN c
  ELSE Canon(b.tv_sec - a.tv_sec, b.tv_nsec - a.tv_nsec)

\* C6: for all normalized a and b over the whole range of the seconds,
\* difference(a, b) returns, and its duration is exactly |a - b| with
\* fractional nanoseconds below 1_000_000_000.
C6_ExactDifference ==
  op = "sub_timespec" =>
    /\ result.tag \in {"Ok", "Err"}
    /\ result.d.nanos < NSEC_PER_SEC
    /\ Canon(result.d.secs, result.d.nanos) = AbsDiff(self, other)

\* C7: when add_duration(t, d) returns r, r is the exact sum of t and d, and
\* r.seconds holds one carried second exactly when the nanoseconds of t and d
\* add up to 1_000_000_000 or more.
C7_AddExact ==
  IsAdd /\ Returned =>
    /\ Canon(result.t.tv_sec, result.t.tv_nsec)
         = Canon(self.tv_sec + dur.secs, self.tv_nsec + dur.nanos)
    /\ result.t.tv_sec = self.tv_sec + dur.secs + 1 <=> Carry
    /\ result.t.tv_sec = self.tv_sec + dur.secs <=> ~Carry

\* C7 witness: the sum carried exactly one second (nanoseconds adding up to
\* exactly 1_000_000_000).
C7_Witness ==
  /\ IsAdd /\ Returned
  /\ self.tv_nsec + dur.nanos = NSEC_PER_SEC
  /\ result.t = Timespec(self.tv_sec + dur.secs + 1, 0)

\* C8: when the seconds of the exact t + d exceed the maximum of the seconds
\* type, add_duration returns no result.
C8_AddNeverWraps ==
  IsAdd /\ ExactSecsSum > TimeMax => result = None

\* C8 witness: the whole seconds add up to exactly the maximum and only the
\* carried second overflows.
C8_Witness ==
  /\ IsAdd
  /\ self.tv_sec + dur.secs = TimeMax
  /\ dur.secs > 0
  /\ Carry
  /\ result = None

\* C9: when sub_duration(t, d) returns r, r is the exact difference of t and
\* d, one second borrowed exactly when t.nanoseconds < d.fractional
\* nanoseconds; and when the seconds of the exact t - d fall below the
\* minimum of the seconds type, sub_duration returns no result.
C9_SubExact ==
  IsSub =>
    /\ Returned =>
         /\ Canon(result.t.tv_sec, result.t.tv_nsec)
              = Canon(self.tv_sec - dur.secs, self.tv_nsec - dur.nanos)
         /\ result.t.tv_sec = self.tv_sec - dur.secs - 1 <=> Borrow
         /\ result.t.tv_sec = self.tv_sec - dur.secs <=> ~Borrow
    /\ ExactSecsDiff < TimeMin => result = None

\* C9 witness: a subtraction that borrowed returned the second just below.
C9_Witness ==
  /\ IsSub /\ Returned /\ Borrow
  /\ dur.secs > 0
  /\ result.t.tv_sec = self.tv_sec - dur.secs - 1

\* C9 second case reached: only the borrowed second underflows.
C9_BorrowUnderflows ==
  /\ IsSub /\ Borrow
  /\ self.tv_sec - dur.secs = TimeMin
  /\ result = None

\* C10 as stated: when earlier > self, elapsed_since returns the backward
\* outcome together with the magnitude of the difference.
C10_BackwardSurfaces ==
  op = "checked_sub_instant" /\ lt(self, other) =>
    /\ result.tag \in {"Err", "Some"}
    /\ result.d = Reverse.d

\* C10 amended: when earlier > self, elapsed_since returns no result: the
\* backward outcome is reduced to None, which carries no magnitude (or the
\* call panics on the overflow of the seconds subtraction, in a build that
\* checks overflow); it never returns a duration.
C10_BackwardIsNone ==
  op = "checked_sub_instant" /\ lt(self, other) =>
    \/ result = None
    \/ /\ result = Panic
       /\ overflow_checks
       /\ ~InTime(other.tv_sec - self.tv_sec)

\* C10 witness: earlier > self, no overflow, and the result is None although
\* the difference has a nonzero magnitude.
C10_Witness ==
  /\ op = "checked_sub_instant"
  /\ lt(self, other)
  /\ result = None
  /\ sub_timespec(self, other, overflow_checks).tag = "Err"
  /\ sub_timespec(self, other, overflow_checks).d # Duration(0, 0)

IsNow == op \in {"instant_now", "systemtime_now"}

\* C11: when the raw clock source reports a failure, now() of both clocks
\* returns an absent result; it neither aborts nor makes up a timestamp.
C11_NowPropagatesFailure ==
  IsNow /\ raw.cvt = "Err" => result = None

\* a before b in the lexicographic order on (seconds, nanoseconds).
LexBefore(a, b) ==
  \/ a.tv_sec < b.tv_sec
  \/ a.tv_sec = b.tv_sec /\ a.tv_nsec < b.tv_nsec

Opposite(o) ==
  IF o = "Less" THEN "Greater" ELSE IF o = "Greater" THEN "Less" ELSE "Equal"

\* C12: comparison is the lexicographic order on (seconds, nanoseconds), it
\* is a total order (the reverse comparison gives the opposite answer, and
\* at-or-before is transitive), and a == b iff both fields are equal iff
\* cmp(a, b) is Equal.
C12_LexicographicTotalOrder ==
  op = "cmp" =>
    /\ result.ord = "Less" <=> LexBefore(self, other)
    /\ result.ord = "Greater" <=> LexBefore(other, self)
    /\ result.ord = "Equal" <=> self = other
    /\ result.eq <=> self = other
    /\ cmp(other, self) = Opposite(result.ord)
    /\ \A c \in Timespecs :
         result.ord # "Greater" /\ cmp(other, c) # "Greater"
           => cmp(self, c) # "Greater"

\* C12 witness: the seconds decide against the nanoseconds.
C12_Witness ==
  /\ op = "cmp"
  /\ self.tv_sec < other.tv_sec
  /\ self.tv_nsec > other.tv_nsec
  /\ result.ord = "Less"
  /\ ~result.eq

ValidUsec(tv) == 0 <= tv.tv_usec /\ tv.tv_usec < 1000000

\* t is the timeval tv with its microseconds turned into nanoseconds and its
\* seconds untouched.
ScaledFrom(t, tv) ==
  /\ t.tv_sec = tv.tv_sec
  /\ t.tv_nsec % 1000 = 0
  /\ t.tv_nsec \div 1000 = tv.tv_usec

\* C13: for every seconds value s and microseconds 0 <= u < 1_000_000 the
\* seconds+microseconds conversion yields {seconds: s, nanoseconds: u*1000},
\* without carry, and now() scales the reading it wraps the same way.
C13_MicrosecondsScaled ==
  /\ op = "from_timeval" /\ ValidUsec(raw.v)
       => result.tag = "Some" /\ ScaledFrom(result.t, raw.v)
  /\ IsNow /\ raw.cvt = "Ok" /\ ValidUsec(raw.v)
       => result.tag = "Some" /\ ScaledFrom(result.t, raw.v)

\* C13 witness: 250 microseconds became 250_000 nanoseconds.
C13_Witness ==
  /\ op = "from_timeval"
  /\ raw.v.tv_usec = 250
  /\ result.t = Timespec(raw.v.tv_sec, 250000)
  /\ raw.v.tv_sec # 0

\* C13, the reading of now(): reached for both clocks.
C13_NowScaled ==
  /\ IsNow /\ raw.cvt = "Ok"
  /\ raw.v.tv_usec = 999999
  /\ result = Some(Timespec(raw.v.tv_sec, 999999000))

\* C14: the whole-seconds conversion maps every unsigned n to the timestamp
\* {seconds: n, nanoseconds: 0}; the seconds are never negative and the
\* result is never ordered before Epoch.
C14_WholeSecondsKept ==
  op = "from_c_uint" =>
    /\ result.t = Timespec(raw.n, 0)
    /\ result.t.tv_sec >= 0
    /\ ge(result.t, UNIX_EPOCH)

Calls == sub_timespec_calls(self, other, MaxCalls)

\* C15: difference(a, b) makes at most one recursive call: none when a >= b,
\* and when a < b exactly one, whose operands b, a satisfy b >= a, so that it
\* takes the a >= b branch and does not recurse again; the result is that of
\* the a >= b branch, applied to the swapped operands and re-tagged if a < b.
C15_OneLevelOfRecursion ==
  op = "sub_timespec" =>
    /\ Calls <= 1
    /\ ge(self, other) => Calls = 0
    /\ lt(self, other) => Calls = 1 /\ ge(other, self)
    /\ result.tag \in {"Ok", "Err", "Panic"}
    /\ result = IF ge(self, other)
                THEN sub_forward(self, other, overflow_checks)
                ELSE swap_tag(sub_forward(other, self, overflow_checks))

\* C15 witness: a < b, one recursive call, and the call returned.
C15_Witness ==
  /\ op = "sub_timespec"
  /\ lt(self, other)
  /\ Calls = 1
  /\ result.tag = "Err"

\* C16: add_duration and sub_duration return no result only on genuine
\* overflow: when the seconds of the exact t + d (t - d) lie in the range of
\* the seconds type, the operation returns that result, even when
\* d.whole_seconds alone exceeds the maximum of the seconds type.
C16_NoneOnlyOnOverflow ==
  /\ IsAdd /\ InTime(ExactSecsSum)
       => Returned /\ result.t.tv_sec = ExactSecsSum
  /\ IsSub /\ InTime(ExactSecsDiff)
       => Returned /\ result.t.tv_sec = ExactSecsDiff

\* C17: when add_duration(t, d) returns r, r >= t and difference(r, t) is the
\* forward outcome with duration exactly d; when sub_duration(t, d) returns
\* r, r <= t and difference(t, r) is the forward outcome with duration d.
C17_OffsetAndDifferenceAgree ==
  /\ IsAdd /\ Returned =>
       /\ ge(result.t, self)
       /\ sub_timespec(result.t, self, overflow_checks) = Ok(dur)
  /\ IsSub /\ Returned =>
       /\ ge(self, result.t)
       /\ sub_timespec(self, result.t, overflow_checks) = Ok(dur)

\* C17 witness: an addition of the largest whole seconds that carried, in a
\* build with overflow checks; the difference back borrows and is d.
C17_Witness ==
  /\ IsAdd /\ Returned /\ Carry
  /\ dur.secs = TimeMax
  /\ overflow_checks
  /\ result.t.tv_nsec < self.tv_nsec
  /\ sub_timespec(result.t, self, overflow_checks) = Ok(dur)

\* C17, the subtraction: reached with a borrow.
C17_SubWitness ==
  /\ IsSub /\ Returned /\ Borrow
  /\ dur.secs = TimeMax
  /\ overflow_checks
  /\ sub_timespec(self, result.t, overflow_checks) = Ok(dur)

====
